---- MODULE Spec2Model ----
(***************************************************************************)
(* Model of the Gemini AI service (retry, exponential backoff, rate        *)
(* limiting and model fallback) of src/shared/types/index.ts, lines        *)
(* 609-983.                                                                *)
(*                                                                         *)
(* JavaScript runs every stretch of code between two awaits to completion, *)
(* so each action below is one such stretch of one call.  Time is kept as  *)
(* elapsed milliseconds: sinceLastCall is Date.now() - lastCallTime, cut   *)
(* off at minDelayBetweenCallsMs (the code only compares the difference    *)
(* with that threshold), and wait[c] is what is left of the timer call c   *)
(* sleeps on.  A timer never fires early; it may fire late.                *)
(***************************************************************************)
EXTENDS Integers, Sequences, FiniteSets, TLC

\* ---------------------------------------------------------------- bounds
\* number of values Math.random() is drawn from: j / JitterSteps, j < JitterSteps
JitterSteps == 4

\* largest attempt index calculateBackoffDelay is called with on its own
MaxAttemptIndex == 14

\* largest number of pieces a response text given to extractJson is made of
MaxSegments == 4

\* number of calls made on the model chain when its operations are called on their own
MaxChainCalls == 6

\* ------------------------------------------------------------- constants
MODEL_CHAIN ==
    << "gemini-2.5-pro", "gemini-2.5-flash", "gemini-2.0-flash-exp", "gemini-1.5-pro" >>

RETRY_CONFIG ==
    [ maxRetries |-> 3, baseDelayMs |-> 1000, maxDelayMs |-> 30000, backoffMultiplier |-> 2 ]

minDelayBetweenCallsMs == 500

interModelDelayMs == 2000

validationFailDelayMs == 1000

\* the two concurrent callers (two UI actions in flight)
Procs == { "p1", "p2" }

\* names the callers pass to executeWithRetry
OperationNames == { "generateWithImage", "generateWithText" }

\* values an operation can return
Results == { "r1", "r2" }

\* granularity of the passage of time while the rate limiter matters
TimeStepMs == minDelayBetweenCallsMs \div 2

Null == "null"

Min(a, b) == IF a < b THEN a ELSE b
Max(a, b) == IF a > b THEN a ELSE b

\* ------------------------------------------------------- error messages
\* a message is a sequence of characters
Msg429 == <<"4", "2", "9">>
MsgQuota == <<"Q", "u", "o", "t", "a", " ", "e", "x", "c", "e", "e", "d", "e", "d">>
MsgNetwork == <<"n", "e", "t", "w", "o", "r", "k", " ", "e", "r", "r", "o", "r">>
MsgInvalid == <<"i", "n", "v", "a", "l", "i", "d", " ", "a", "r", "g", "u", "m", "e", "n", "t">>
MsgPermission == <<"p", "e", "r", "m", "i", "s", "s", "i", "o", "n", " ", "d", "e", "n", "i", "e", "d">>
MsgTimeoutUpper == <<"T", "I", "M", "E", "O", "U", "T">>

RetryableKeywords ==
    { <<"5", "0", "3">>,
      <<"o", "v", "e", "r", "l", "o", "a", "d", "e", "d">>,
      <<"4", "2", "9">>,
      <<"r", "a", "t", "e", " ", "l", "i", "m", "i", "t">>,
      <<"q", "u", "o", "t", "a">>,
      <<"r", "e", "s", "o", "u", "r", "c", "e", " ", "e", "x", "h", "a", "u", "s", "t", "e", "d">>,
      <<"t", "e", "m", "p", "o", "r", "a", "r", "i", "l", "y", " ", "u", "n", "a", "v", "a", "i", "l", "a", "b", "l", "e">>,
      <<"n", "e", "t", "w", "o", "r", "k">>,
      <<"t", "i", "m", "e", "o", "u", "t">> }

UpperToLower ==
    [ A |-> "a", B |-> "b", C |-> "c", D |-> "d", E |-> "e", F |-> "f", G |-> "g",
      H |-> "h", I |-> "i", J |-> "j", K |-> "k", L |-> "l", M |-> "m", N |-> "n",
      O |-> "o", P |-> "p", Q |-> "q", R |-> "r", S |-> "s", T |-> "t", U |-> "u",
      V |-> "v", W |-> "w", X |-> "x", Y |-> "y", Z |-> "z" ]

\* toLowerCase that leaves every character as it is
toLowerCaseKeepsCase(s) == s

\* String.prototype.toLowerCase
toLowerCase(s) ==
    [ n \in 1..Len(s) |-> IF s[n] \in DOMAIN UpperToLower THEN UpperToLower[s[n]] ELSE s[n] ]

\* String.prototype.includes
includes(s, sub) ==
    \E n \in 1..(Len(s) - Len(sub) + 1) : SubSeq(s, n, n + Len(sub) - 1) = sub

\* a thrown value: an Error object with a message, or a bare string
ErrorOf(msg) == [ type |-> "Error", message |-> msg ]
StringOf(msg) == [ type |-> "string", message |-> msg ]
NoError == [ type |-> "null", message |-> <<>> ]

\* what the operation can throw in the runs of executeWithRetry
OperationErrors ==
    { ErrorOf(Msg429), ErrorOf(MsgQuota), ErrorOf(MsgInvalid), StringOf(Msg429) }

\* isRetryableError that also reads a thrown string
isRetryableErrorStringsToo(error) ==
    IF error.type \in { "Error", "string" }
    THEN LET message == toLowerCase(error.message)
         IN  \E k \in RetryableKeywords : includes(message, k)
    ELSE FALSE

\* isRetryableError without its instanceof test
isRetryableErrorByText(error) ==
    LET message == toLowerCase(error.message)
    IN  \E k \in RetryableKeywords : includes(message, k)

isRetryableError(error) ==
    IF error.type = "Error"
    THEN LET message == toLowerCase(error.message)
         IN  \E k \in RetryableKeywords : includes(message, k)
    ELSE FALSE

\* new Error(String(error)) whatever error is; String() of an Error is
\* 'Error: ' and its message
AsErrorAlwaysWraps(error) ==
    IF error.type = "Error"
    THEN ErrorOf(<<"E", "r", "r", "o", "r", ":", " ">> \o error.message)
    ELSE ErrorOf(error.message)

\* error instanceof Error ? error : new Error(String(error))
AsError(error) ==
    IF error.type = "Error" THEN error ELSE ErrorOf(error.message)

\* ---------------------------------------------------------------- backoff
RECURSIVE Pow(_, _)
Pow(b, e) == IF e = 0 THEN 1 ELSE b * Pow(b, e - 1)

\* calculateBackoffDelay whose base delay does not grow with the attempt
calculateBackoffDelayFlat(attempt, rnd) ==
    LET baseDelay == RETRY_CONFIG.baseDelayMs
        jitter == (rnd * 3 * baseDelay) \div (10 * JitterSteps)
    IN  Min(baseDelay + jitter, RETRY_CONFIG.maxDelayMs)

\* calculateBackoffDelay whose jitter is taken off the base delay
calculateBackoffDelayJitterOff(attempt, rnd) ==
    LET baseDelay == RETRY_CONFIG.baseDelayMs * Pow(RETRY_CONFIG.backoffMultiplier, attempt)
        jitter == (rnd * 3 * baseDelay) \div (10 * JitterSteps)
    IN  Min(baseDelay - jitter, RETRY_CONFIG.maxDelayMs)

\* rnd is the numerator j of the Math.random() draw j / JitterSteps
calculateBackoffDelay(attempt, rnd) ==
    LET baseDelay == RETRY_CONFIG.baseDelayMs * Pow(RETRY_CONFIG.backoffMultiplier, attempt)
        jitter == (rnd * 3 * baseDelay) \div (10 * JitterSteps)
    IN  Min(baseDelay + jitter, RETRY_CONFIG.maxDelayMs)

\* ------------------------------------------------------------ extractJson
\* A text is a sequence of characters.  JSON.parse is modelled on the part of
\* JSON the response texts below are written in: objects, strings without
\* escapes, and non-negative whole numbers, with white space between tokens.
Whitespace == { " ", "\n", "\t", "\r" }

DigitChars == << "0", "1", "2", "3", "4", "5", "6", "7", "8", "9" >>

IsDigit(ch) == \E n \in 1..Len(DigitChars) : DigitChars[n] = ch

DigitValue(ch) == (CHOOSE n \in 1..Len(DigitChars) : DigitChars[n] = ch) - 1

\* the first position at or after i of text s that holds no white space
RECURSIVE SkipWs(_, _)
SkipWs(s, i) == IF i <= Len(s) /\ s[i] \in Whitespace THEN SkipWs(s, i + 1) ELSE i

\* the characters of s from position a to position b, as far as s has them
slice(s, a, b) ==
    IF a > Len(s) \/ b < a THEN << >> ELSE SubSeq(s, a, Min(b, Len(s)))

\* String.prototype.indexOf, positions counted from 1 and 0 for "not found"
indexOf(s, sub, from) ==
    LET hits == { n \in from..(Len(s) - Len(sub) + 1) : SubSeq(s, n, n + Len(sub) - 1) = sub }
    IN  IF hits = { } THEN 0 ELSE CHOOSE n \in hits : \A m \in hits : n <= m

\* String.prototype.lastIndexOf
lastIndexOf(s, sub) ==
    LET hits == { n \in 1..(Len(s) - Len(sub) + 1) : SubSeq(s, n, n + Len(sub) - 1) = sub }
    IN  IF hits = { } THEN 0 ELSE CHOOSE n \in hits : \A m \in hits : n >= m

\* String.prototype.trim
trim(s) ==
    LET solid == { n \in 1..Len(s) : s[n] \notin Whitespace }
    IN  IF solid = { } THEN << >>
        ELSE SubSeq(s, CHOOSE n \in solid : \A m \in solid : n <= m,
                       CHOOSE n \in solid : \A m \in solid : n >= m)

\* parsed values
NumberValue(n) == [ t |-> "number", v |-> n ]
StringValue(chars) == [ t |-> "string", v |-> chars ]
ObjectValue(members) == [ t |-> "object", v |-> members ]
NoValue == [ t |-> "undefined", v |-> 0 ]

\* the outcome of parsing a value that starts in the text: the value and the
\* position after it, or a failure
Parsed(val, next) == [ ok |-> TRUE, val |-> val, next |-> next ]
ParseFails == [ ok |-> FALSE, val |-> NoValue, next |-> 0 ]

RECURSIVE ParseDigits(_, _, _)
ParseDigits(s, i, acc) ==
    IF i <= Len(s) /\ IsDigit(s[i])
    THEN ParseDigits(s, i + 1, acc * 10 + DigitValue(s[i]))
    ELSE Parsed(NumberValue(acc), i)

\* a number starts at i; a leading zero stands alone
ParseNumber(s, i) ==
    IF s[i] = "0" THEN Parsed(NumberValue(0), i + 1) ELSE ParseDigits(s, i, 0)

\* a string starts at i with its opening quote
ParseString(s, i) ==
    LET close == indexOf(s, << "\"" >>, i + 1)
    IN  IF close = 0 THEN ParseFails
        ELSE LET chars == slice(s, i + 1, close - 1)
             IN  IF \E n \in 1..Len(chars) : chars[n] \in { "\\", "\n", "\t", "\r" }
                 THEN ParseFails
                 ELSE Parsed(StringValue(chars), close + 1)

\* the members with key set to val: a key that comes again overwrites
PutMember(members, key, val) ==
    IF \E n \in 1..Len(members) : members[n].key = key
    THEN [ n \in 1..Len(members) |->
             IF members[n].key = key THEN [ key |-> key, val |-> val ] ELSE members[n] ]
    ELSE Append(members, [ key |-> key, val |-> val ])

RECURSIVE ParseValue(_, _)
RECURSIVE ParseMembers(_, _, _)

\* a member of an object starts at i; members holds the ones before it
ParseMembers(s, i, members) ==
    IF i > Len(s) \/ s[i] # "\"" THEN ParseFails
    ELSE LET key == ParseString(s, i)
             colon == SkipWs(s, key.next)
         IN  IF ~key.ok \/ colon > Len(s) \/ s[colon] # ":" THEN ParseFails
             ELSE LET val == ParseValue(s, colon + 1)
                      after == SkipWs(s, val.next)
                      all == PutMember(members, key.val.v, val.val)
                  IN  IF ~val.ok \/ after > Len(s) THEN ParseFails
                      ELSE IF s[after] = "}" THEN Parsed(ObjectValue(all), after + 1)
                      ELSE IF s[after] = "," THEN ParseMembers(s, SkipWs(s, after + 1), all)
                      ELSE ParseFails

\* a value starts at or after i, white space first
ParseValue(s, i) ==
    LET j == SkipWs(s, i)
    IN  IF j > Len(s) THEN ParseFails
        ELSE IF s[j] = "{"
             THEN LET k == SkipWs(s, j + 1)
                  IN  IF k <= Len(s) /\ s[k] = "}"
                      THEN Parsed(ObjectValue(<< >>), k + 1)
                      ELSE ParseMembers(s, k, << >>)
        ELSE IF s[j] = "\"" THEN ParseString(s, j)
        ELSE IF IsDigit(s[j]) THEN ParseNumber(s, j)
        ELSE ParseFails

\* JSON.parse: the value the whole text is, or a failure (it throws SyntaxError)
JSONparse(s) ==
    LET r == ParseValue(s, 1)
    IN  IF r.ok /\ SkipWs(s, r.next) > Len(s) THEN r ELSE ParseFails

\* the backquote character, which a string of this language cannot hold
Backquote == "backquote"

Fence == << Backquote, Backquote, Backquote >>

JsonTag == << "j", "s", "o", "n" >>

\* how a call of extractJson ends
Returns(val) == [ kind |-> "value", value |-> val, message |-> "" ]
ThrowsSyntaxError == [ kind |-> "SyntaxError", value |-> NoValue, message |-> "" ]
ThrowsError(message) == [ kind |-> "Error", value |-> NoValue, message |-> message ]

\* return JSON.parse(s), which may throw
ReturnParsed(s) ==
    IF JSONparse(s).ok THEN Returns(JSONparse(s).val) ELSE ThrowsSyntaxError

\* The match of /```(?:json)?\s*([\s\S]*?)```/ starts at the first fence that
\* has a fence after it; the group starts after the optional tag and all the
\* white space, and ends before the next fence.
extractJson(text) ==
    LET open == indexOf(text, Fence, 1)
        tagged == open + Len(Fence)
        inner == SkipWs(text, IF slice(text, tagged, tagged + Len(JsonTag) - 1) = JsonTag
                              THEN tagged + Len(JsonTag) ELSE tagged)
        close == IF open = 0 THEN 0 ELSE indexOf(text, Fence, inner)
        brace == indexOf(text, << "{" >>, 1)
        last == lastIndexOf(text, << "}" >>)
    IN  IF open > 0 /\ close > 0
        THEN ReturnParsed(trim(slice(text, inner, close - 1)))
        ELSE IF brace > 0 /\ last > brace
        THEN ReturnParsed(SubSeq(text, brace, last))
        ELSE ThrowsError("No valid JSON found in response")

\* ------------------------------------------------------------------ state
VARIABLES
    primaryModel,       \* Null, or the handle of MODEL_CHAIN[0] (a handle is the model's name)
    fallbackModels,     \* the handles of MODEL_CHAIN.slice(1)
    currentModelIndex,  \* the cursor
    sinceLastCall,      \* Date.now() - RATE_LIMIT.lastCallTime, at most minDelayBetweenCallsMs
    pc,                 \* where each caller's async function is suspended
    kind,               \* "exec" (executeWithRetry) or "init" (initializeGemini)
    operationName,
    modelAttempt,
    retry,
    totalAttempts,
    lastError,
    currentModel,       \* the handle executeWithRetry holds for the pass
    validateIdx,        \* i of the validation loop
    startIndex,         \* currentModelIndex as the call found it
    wait,               \* milliseconds left on the timer the caller sleeps on
    result,             \* how the caller's last call ended
    retval,             \* the value it returned
    thrown,             \* the value it threw
    exhaustInfo,        \* the parts of the exhaustion error's message
    log,                \* what the call did so far, in order
    opRaised,           \* the value the operation threw last
    opReturned,         \* the value the operation returned; of a probe, whether it held 'ok'
    sinceGrant,         \* time since enforceRateLimit last returned (to any caller)
    lastGap,            \* time between the last two returns of enforceRateLimit
    lastDone,           \* the call that ended last, and the cursor it left
    rateSlept,          \* whether the enforceRateLimit the caller is in, or back from, slept
    unit                \* a helper function called on its own: its argument and what it returned

chainVars == << primaryModel, fallbackModels, currentModelIndex >>
localVars == << kind, operationName, modelAttempt, retry, totalAttempts, lastError,
                currentModel, validateIdx, startIndex >>
sleptVars == << rateSlept >>
outVars == << result, retval, thrown, exhaustInfo, lastDone >>
limiterVars == << sinceLastCall, sinceGrant, lastGap >>
opVars == << opRaised, opReturned >>
vars == << chainVars, localVars, outVars, limiterVars, opVars, sleptVars, pc, wait, log, unit >>

ChainLength == Len(MODEL_CHAIN)

\* the chain position (0 is the primary) of a handle
ChainPos(h) == (CHOOSE n \in 1..ChainLength : MODEL_CHAIN[n] = h) - 1

Event(e, a) == [ ev |-> e, arg |-> a ]

NoInfo == [ operationName |-> "", totalAttempts |-> 0, models |-> 0, lastError |-> NoError ]
\* no helper function is called on its own
NoUnit == [ fn |-> "none" ]

NoneDone == [ kind |-> "none", result |-> "none", cursor |-> 0, backend |-> 0 ]

\* no call is under way and none was made: the rate limiter and the callers
\* as the module's top level leaves them
NoCalls ==
    /\ sinceLastCall = minDelayBetweenCallsMs
    /\ pc = [ c \in Procs |-> "idle" ]
    /\ kind = [ c \in Procs |-> "none" ]
    /\ operationName = [ c \in Procs |-> "" ]
    /\ modelAttempt = [ c \in Procs |-> 0 ]
    /\ retry = [ c \in Procs |-> 0 ]
    /\ totalAttempts = [ c \in Procs |-> 0 ]
    /\ lastError = [ c \in Procs |-> NoError ]
    /\ currentModel = [ c \in Procs |-> Null ]
    /\ validateIdx = [ c \in Procs |-> 0 ]
    /\ startIndex = [ c \in Procs |-> 0 ]
    /\ wait = [ c \in Procs |-> 0 ]
    /\ result = [ c \in Procs |-> "none" ]
    /\ retval = [ c \in Procs |-> "" ]
    /\ thrown = [ c \in Procs |-> NoError ]
    /\ exhaustInfo = [ c \in Procs |-> NoInfo ]
    /\ log = [ c \in Procs |-> << >> ]
    /\ opRaised = [ c \in Procs |-> NoError ]
    /\ opReturned = [ c \in Procs |-> "" ]
    /\ sinceGrant = minDelayBetweenCallsMs
    /\ lastGap = minDelayBetweenCallsMs
    /\ lastDone = NoneDone
    /\ rateSlept = [ c \in Procs |-> FALSE ]

Init ==
    /\ primaryModel = Null
    /\ fallbackModels = << >>
    /\ currentModelIndex = 0
    /\ NoCalls
    /\ unit = NoUnit

\* lines 766-768
isInitialized == primaryModel # Null

\* ------------------------------------------------------------ model chain
\* getCurrentModel, called with primaryModel set
getCurrentModel ==
    IF currentModelIndex = 0
    THEN primaryModel
    ELSE IF currentModelIndex <= Len(fallbackModels)
         THEN fallbackModels[currentModelIndex]
         ELSE primaryModel

\* getNextModel that goes round to the primary at the end of the chain
getNextModelWraps ==
    IF currentModelIndex < Len(fallbackModels)
    THEN [ index |-> currentModelIndex + 1, model |-> fallbackModels[currentModelIndex + 1] ]
    ELSE [ index |-> 0, model |-> primaryModel ]

\* getNextModel that stops one backend short of the end of the chain
getNextModelShort ==
    IF currentModelIndex + 1 < Len(fallbackModels)
    THEN [ index |-> currentModelIndex + 1, model |-> fallbackModels[currentModelIndex + 1] ]
    ELSE [ index |-> currentModelIndex, model |-> Null ]

\* getNextModel that returns the next handle and forgets to move the cursor
getNextModelStuck ==
    IF currentModelIndex < Len(fallbackModels)
    THEN [ index |-> currentModelIndex, model |-> fallbackModels[currentModelIndex + 1] ]
    ELSE [ index |-> currentModelIndex, model |-> Null ]

\* getNextModel: the cursor it leaves and the handle it returns
getNextModel ==
    IF currentModelIndex < Len(fallbackModels)
    THEN [ index |-> currentModelIndex + 1, model |-> fallbackModels[currentModelIndex + 1] ]
    ELSE [ index |-> currentModelIndex, model |-> Null ]

\* resetToMainModel that leaves the cursor alone
resetToMainModelNot == currentModelIndex

\* resetToMainModel: the cursor it leaves
resetToMainModel == 0

\* ----------------------------------------------------------- flow helpers
\* the call of c ends: it returns or throws
Finish(c, k, res, rv, th, info, cursor, lg) ==
    /\ pc' = [pc EXCEPT ![c] = "idle"]
    /\ result' = [result EXCEPT ![c] = res]
    /\ retval' = [retval EXCEPT ![c] = rv]
    /\ thrown' = [thrown EXCEPT ![c] = th]
    /\ exhaustInfo' = [exhaustInfo EXCEPT ![c] = info]
    /\ lastDone' = [ kind |-> k, result |-> res, cursor |-> cursor,
                     backend |-> IF res = "ok" THEN ChainPos(currentModel[c]) ELSE 0 ]
    /\ log' = [log EXCEPT ![c] = lg]
    /\ wait' = [wait EXCEPT ![c] = 0]
    /\ UNCHANGED << limiterVars, sleptVars >>

\* a call starts: what the caller's previous call left is dropped
ClearOut(c) ==
    /\ result' = [result EXCEPT ![c] = "none"]
    /\ retval' = [retval EXCEPT ![c] = ""]
    /\ thrown' = [thrown EXCEPT ![c] = NoError]
    /\ exhaustInfo' = [exhaustInfo EXCEPT ![c] = NoInfo]
    /\ UNCHANGED lastDone

\* await sleep(ms)
Sleep(c, where, ms, lg) ==
    /\ pc' = [pc EXCEPT ![c] = where]
    /\ wait' = [wait EXCEPT ![c] = ms]
    /\ log' = [log EXCEPT ![c] = lg]
    /\ UNCHANGED limiterVars

\* enforceRateLimit, line 672 and its return
RecordCall(c, lg) ==
    /\ sinceLastCall' = 0
    /\ lastGap' = sinceGrant
    /\ sinceGrant' = 0
    /\ pc' = [pc EXCEPT ![c] = "acquired"]
    /\ wait' = [wait EXCEPT ![c] = 0]
    /\ log' = [log EXCEPT ![c] = Append(lg, Event("acquire", 0))]

\* enforceRateLimit that never waits
enforceRateLimitNoWait(c, lg) ==
    /\ RecordCall(c, lg)
    /\ rateSlept' = [rateSlept EXCEPT ![c] = FALSE]

\* enforceRateLimit up to its await, or to its return when it need not wait
enforceRateLimit(c, lg) ==
    LET timeSinceLastCall == sinceLastCall
    IN  IF timeSinceLastCall < minDelayBetweenCallsMs
        THEN /\ Sleep(c, "rateLimitSleep", minDelayBetweenCallsMs - timeSinceLastCall, lg)
             /\ rateSlept' = [rateSlept EXCEPT ![c] = TRUE]
        ELSE /\ RecordCall(c, lg)
             /\ rateSlept' = [rateSlept EXCEPT ![c] = FALSE]

\* ------------------------------------------------------- executeWithRetry
\* one more attempt that is not counted (no totalAttempts++)
BeginAttemptUncounted(c, lg) ==
    /\ totalAttempts' = totalAttempts
    /\ enforceRateLimit(c, lg)
    /\ UNCHANGED outVars

\* lines 800-804: one more attempt; the caller has set retry and currentModel
BeginAttempt(c, lg) ==
    /\ totalAttempts' = [totalAttempts EXCEPT ![c] = @ + 1]
    /\ enforceRateLimit(c, lg)
    /\ UNCHANGED outVars

\* lines 840-842: All models and retries exhausted
ThrowExhausted(c, lg) ==
    /\ currentModelIndex' = resetToMainModel
    /\ Finish(c, "exec", "exhausted", "", NoError,
              [ operationName |-> operationName[c],
                totalAttempts |-> totalAttempts[c],
                models |-> currentModelIndex' + 1,
                lastError |-> lastError[c] ],
              currentModelIndex', lg)
    /\ UNCHANGED << primaryModel, fallbackModels, totalAttempts, retry, currentModel >>

\* lines 796-801: a pass of the outer loop starts (its condition held)
BeginPass(c, lg) ==
    IF primaryModel = Null
    THEN \* getCurrentModel throws
         /\ Finish(c, "exec", "uninitialized", "", NoError, NoInfo, currentModelIndex, lg)
         /\ UNCHANGED << chainVars, totalAttempts, retry, currentModel >>
    ELSE /\ currentModel' = [currentModel EXCEPT ![c] = getCurrentModel]
         /\ retry' = [retry EXCEPT ![c] = 0]
         /\ BeginAttempt(c, lg)
         /\ UNCHANGED chainVars

\* executeWithRetry is called, and the rate limiter is passed before the model is fetched
ExecuteStartLimiterFirst(c, name) ==
    /\ pc[c] = "idle"
    /\ kind' = [kind EXCEPT ![c] = "exec"]
    /\ operationName' = [operationName EXCEPT ![c] = name]
    /\ lastError' = [lastError EXCEPT ![c] = NoError]
    /\ modelAttempt' = [modelAttempt EXCEPT ![c] = 0]
    /\ startIndex' = [startIndex EXCEPT ![c] = currentModelIndex]
    /\ IF primaryModel = Null
       THEN /\ pc' = [pc EXCEPT ![c] = "idle"]
            /\ result' = [result EXCEPT ![c] = "uninitialized"]
            /\ retval' = [retval EXCEPT ![c] = ""]
            /\ thrown' = [thrown EXCEPT ![c] = NoError]
            /\ exhaustInfo' = [exhaustInfo EXCEPT ![c] = NoInfo]
            /\ lastDone' = [ kind |-> "exec", result |-> "uninitialized",
                             cursor |-> currentModelIndex, backend |-> 0 ]
            /\ log' = [log EXCEPT ![c] = << >>]
            /\ wait' = [wait EXCEPT ![c] = 0]
            /\ sinceLastCall' = 0
            /\ lastGap' = sinceGrant
            /\ sinceGrant' = 0
            /\ UNCHANGED sleptVars
            /\ totalAttempts' = [totalAttempts EXCEPT ![c] = 0]
            /\ UNCHANGED << chainVars, retry, currentModel >>
       ELSE /\ currentModel' = [currentModel EXCEPT ![c] = getCurrentModel]
            /\ retry' = [retry EXCEPT ![c] = 0]
            /\ totalAttempts' = [totalAttempts EXCEPT ![c] = 1]
            /\ enforceRateLimit(c, << >>)
            /\ ClearOut(c)
            /\ UNCHANGED chainVars
    /\ opRaised' = [opRaised EXCEPT ![c] = NoError]
    /\ opReturned' = [opReturned EXCEPT ![c] = ""]
    /\ UNCHANGED validateIdx
    /\ UNCHANGED unit

\* executeWithRetry is called
ExecuteStart(c, name) ==
    /\ pc[c] = "idle"
    /\ kind' = [kind EXCEPT ![c] = "exec"]
    /\ operationName' = [operationName EXCEPT ![c] = name]
    /\ lastError' = [lastError EXCEPT ![c] = NoError]
    /\ modelAttempt' = [modelAttempt EXCEPT ![c] = 0]
    /\ startIndex' = [startIndex EXCEPT ![c] = currentModelIndex]
    /\ IF primaryModel = Null
       THEN /\ Finish(c, "exec", "uninitialized", "", NoError, NoInfo, currentModelIndex, << >>)
            /\ totalAttempts' = [totalAttempts EXCEPT ![c] = 0]
            /\ UNCHANGED << chainVars, retry, currentModel >>
       ELSE /\ currentModel' = [currentModel EXCEPT ![c] = getCurrentModel]
            /\ retry' = [retry EXCEPT ![c] = 0]
            /\ totalAttempts' = [totalAttempts EXCEPT ![c] = 1]
            /\ enforceRateLimit(c, << >>)
            /\ ClearOut(c)
            /\ UNCHANGED chainVars
    /\ opRaised' = [opRaised EXCEPT ![c] = NoError]
    /\ opReturned' = [opReturned EXCEPT ![c] = ""]
    /\ UNCHANGED validateIdx
    /\ UNCHANGED unit

\* the timer of enforceRateLimit fires: line 672
RateLimitWake(c) ==
    /\ pc[c] = "rateLimitSleep"
    /\ wait[c] = 0
    /\ RecordCall(c, log[c])
    /\ UNCHANGED << chainVars, localVars, outVars, opVars, sleptVars >>
    /\ UNCHANGED unit

\* line 807 (line 738 in initializeGemini): the provider is called; a probe
\* on a handle that is not there throws at once and is caught at line 747
Invoke(c) ==
    /\ pc[c] = "acquired"
    /\ IF kind[c] = "init" /\ currentModel[c] = Null
       THEN /\ pc' = [pc EXCEPT ![c] = "validationSleep"]
            /\ wait' = [wait EXCEPT ![c] = validationFailDelayMs]
            /\ log' = [log EXCEPT ![c] = Append(@, Event("validationSleep", validateIdx[c]))]
       ELSE /\ pc' = [pc EXCEPT ![c] = "inflight"]
            /\ wait' = wait
            /\ log' = [log EXCEPT ![c] =
                         Append(@, Event("invoke", IF kind[c] = "exec"
                                                   THEN ChainPos(currentModel[c])
                                                   ELSE validateIdx[c]))]
    /\ rateSlept' = [rateSlept EXCEPT ![c] = FALSE]
    /\ UNCHANGED << chainVars, localVars, outVars, limiterVars, opVars >>
    /\ UNCHANGED unit

\* the operation returns r and the chain is reset (what the comment of line 809 says)
OperationReturnsAndResets(c, r) ==
    /\ pc[c] = "inflight"
    /\ kind[c] = "exec"
    /\ opReturned' = [opReturned EXCEPT ![c] = r]
    /\ currentModelIndex' = 0
    /\ Finish(c, "exec", "ok", r, NoError, NoInfo, 0, log[c])
    /\ UNCHANGED << primaryModel, fallbackModels, localVars, opRaised >>
    /\ UNCHANGED unit

\* lines 807-814: the operation returns r
OperationReturns(c, r) ==
    /\ pc[c] = "inflight"
    /\ kind[c] = "exec"
    /\ opReturned' = [opReturned EXCEPT ![c] = r]
    /\ Finish(c, "exec", "ok", r, NoError, NoInfo, currentModelIndex, log[c])
    /\ UNCHANGED << chainVars, localVars, opRaised >>
    /\ UNCHANGED unit

\* the operation throws, and the backoff delay grows with the attempts of the
\* whole call
OperationThrowsTotalIndex(c, error, rnd) ==
    /\ pc[c] = "inflight"
    /\ kind[c] = "exec"
    /\ opRaised' = [opRaised EXCEPT ![c] = error]
    /\ lastError' = [lastError EXCEPT ![c] = AsError(error)]
    /\ IF isRetryableError(error)
       THEN /\ Sleep(c, "backoff", calculateBackoffDelay(totalAttempts[c] - 1, rnd),
                     Append(log[c], Event("backoff", retry[c])))
            /\ UNCHANGED << outVars, sleptVars >>
       ELSE Finish(c, "exec", "fatal", "", lastError'[c], NoInfo, currentModelIndex, log[c])
    /\ UNCHANGED << chainVars, kind, operationName, modelAttempt, retry, totalAttempts,
                    currentModel, validateIdx, startIndex, opReturned >>
    /\ UNCHANGED unit

\* lines 815-826: the operation throws error; rnd is the jitter draw
OperationThrows(c, error, rnd) ==
    /\ pc[c] = "inflight"
    /\ kind[c] = "exec"
    /\ opRaised' = [opRaised EXCEPT ![c] = error]
    /\ lastError' = [lastError EXCEPT ![c] = AsError(error)]
    /\ IF isRetryableError(error)
       THEN /\ Sleep(c, "backoff", calculateBackoffDelay(retry[c], rnd),
                     Append(log[c], Event("backoff", retry[c])))
            /\ UNCHANGED << outVars, sleptVars >>
       ELSE Finish(c, "exec", "fatal", "", lastError'[c], NoInfo, currentModelIndex, log[c])
    /\ UNCHANGED << chainVars, kind, operationName, modelAttempt, retry, totalAttempts,
                    currentModel, validateIdx, startIndex, opReturned >>
    /\ UNCHANGED unit

\* the inner loop one iteration short
RetriesLeftOffByOne(c) == retry[c] + 1 < RETRY_CONFIG.maxRetries - 1

\* line 800: retry++ and the condition of the inner loop
RetriesLeft(c) == retry[c] + 1 < RETRY_CONFIG.maxRetries

\* the backoff timer fires: next retry, or lines 830-837, or lines 840-842
BackoffWake(c) ==
    /\ pc[c] = "backoff"
    /\ wait[c] = 0
    /\ IF RetriesLeft(c)
       THEN /\ retry' = [retry EXCEPT ![c] = @ + 1]
            /\ BeginAttempt(c, log[c])
            /\ UNCHANGED << chainVars, currentModel >>
       ELSE IF getNextModel.model # Null
            THEN /\ currentModelIndex' = getNextModel.index
                 /\ Sleep(c, "cooldown", interModelDelayMs,
                          Append(Append(log[c], Event("advance", getNextModel.index)),
                                 Event("cooldown", 0)))
                 /\ UNCHANGED << outVars, sleptVars >>
                 /\ UNCHANGED << primaryModel, fallbackModels, totalAttempts, retry,
                                 currentModel >>
            ELSE ThrowExhausted(c, log[c])
    /\ UNCHANGED << kind, operationName, modelAttempt, lastError, validateIdx, startIndex,
                    opVars >>
    /\ UNCHANGED unit

\* the cool-down timer fires, and the outer loop has no bound of its own
CooldownWakeUnbounded(c) ==
    /\ pc[c] = "cooldown"
    /\ wait[c] = 0
    /\ modelAttempt' = [modelAttempt EXCEPT ![c] = @ + 1]
    /\ BeginPass(c, log[c])
    /\ UNCHANGED << kind, operationName, lastError, validateIdx, startIndex,
                    opVars >>
    /\ UNCHANGED unit

\* the cool-down timer fires: the next pass of the outer loop, if any
CooldownWake(c) ==
    /\ pc[c] = "cooldown"
    /\ wait[c] = 0
    /\ modelAttempt' = [modelAttempt EXCEPT ![c] = @ + 1]
    /\ IF modelAttempt[c] + 1 <= Len(fallbackModels)
       THEN BeginPass(c, log[c])
       ELSE ThrowExhausted(c, log[c])
    /\ UNCHANGED << kind, operationName, lastError, validateIdx, startIndex,
                    opVars >>
    /\ UNCHANGED unit

\* ------------------------------------------------------- initializeGemini
\* lines 732-737: the validation loop goes on with i = n, if n is in range
ValidateFrom(c, n, lg, first) ==
    IF n < Len(MODEL_CHAIN)
    THEN /\ validateIdx' = [validateIdx EXCEPT ![c] = n]
         /\ currentModel' = [currentModel EXCEPT ![c] =
                               IF n = 0 THEN primaryModel'
                               ELSE IF n <= Len(fallbackModels') THEN fallbackModels'[n]
                               ELSE Null]
         /\ enforceRateLimit(c, lg)
         /\ IF first THEN ClearOut(c) ELSE UNCHANGED outVars
    ELSE \* line 753, validated is false
         /\ Finish(c, "init", "false", "", NoError, NoInfo, currentModelIndex', lg)
         /\ UNCHANGED << validateIdx, currentModel >>

\* initializeGemini is called, and leaves the cursor where it is (no line 728)
InitializeStartKeepsCursor(c, constructs) ==
    /\ pc[c] = "idle"
    /\ kind' = [kind EXCEPT ![c] = "init"]
    /\ startIndex' = [startIndex EXCEPT ![c] = currentModelIndex]
    /\ IF constructs
       THEN /\ primaryModel' = MODEL_CHAIN[1]
            /\ fallbackModels' = Tail(MODEL_CHAIN)
            /\ UNCHANGED currentModelIndex
            /\ ValidateFrom(c, 0, << >>, TRUE)
       ELSE \* lines 754-759
            /\ primaryModel' = Null
            /\ fallbackModels' = << >>
            /\ UNCHANGED currentModelIndex
            /\ Finish(c, "init", "false", "", NoError, NoInfo, currentModelIndex, << >>)
            /\ UNCHANGED << validateIdx, currentModel >>
    /\ operationName' = [operationName EXCEPT ![c] = ""]
    /\ modelAttempt' = [modelAttempt EXCEPT ![c] = 0]
    /\ retry' = [retry EXCEPT ![c] = 0]
    /\ totalAttempts' = [totalAttempts EXCEPT ![c] = 0]
    /\ lastError' = [lastError EXCEPT ![c] = NoError]
    /\ opRaised' = [opRaised EXCEPT ![c] = NoError]
    /\ opReturned' = [opReturned EXCEPT ![c] = ""]
    /\ UNCHANGED unit

\* initializeGemini is called; constructs: the handles get constructed (lines 720-726)
InitializeStart(c, constructs) ==
    /\ pc[c] = "idle"
    /\ kind' = [kind EXCEPT ![c] = "init"]
    /\ startIndex' = [startIndex EXCEPT ![c] = currentModelIndex]
    /\ IF constructs
       THEN /\ primaryModel' = MODEL_CHAIN[1]
            /\ fallbackModels' = Tail(MODEL_CHAIN)
            /\ currentModelIndex' = 0
            /\ ValidateFrom(c, 0, << >>, TRUE)
       ELSE \* lines 754-759
            /\ primaryModel' = Null
            /\ fallbackModels' = << >>
            /\ UNCHANGED currentModelIndex
            /\ Finish(c, "init", "false", "", NoError, NoInfo, currentModelIndex, << >>)
            /\ UNCHANGED << validateIdx, currentModel >>
    /\ operationName' = [operationName EXCEPT ![c] = ""]
    /\ modelAttempt' = [modelAttempt EXCEPT ![c] = 0]
    /\ retry' = [retry EXCEPT ![c] = 0]
    /\ totalAttempts' = [totalAttempts EXCEPT ![c] = 0]
    /\ lastError' = [lastError EXCEPT ![c] = NoError]
    /\ opRaised' = [opRaised EXCEPT ![c] = NoError]
    /\ opReturned' = [opReturned EXCEPT ![c] = ""]
    /\ UNCHANGED unit

\* the probe is answered, and an answer with 'ok' does not set the cursor
ProbeReturnsCursorNotSet(c, ok) ==
    /\ pc[c] = "inflight"
    /\ kind[c] = "init"
    /\ opReturned' = [opReturned EXCEPT ![c] = IF ok THEN "ok" ELSE "other"]
    /\ IF ok
       THEN /\ Finish(c, "init", "true", "", NoError, NoInfo, currentModelIndex, log[c])
            /\ UNCHANGED << chainVars, validateIdx, currentModel >>
       ELSE /\ UNCHANGED chainVars
            /\ ValidateFrom(c, validateIdx[c] + 1, log[c], FALSE)
    /\ UNCHANGED << kind, operationName, modelAttempt, retry, totalAttempts, lastError,
                    startIndex, opRaised >>
    /\ UNCHANGED unit

\* lines 738-746: the probe is answered; ok: the text includes 'ok'
ProbeReturns(c, ok) ==
    /\ pc[c] = "inflight"
    /\ kind[c] = "init"
    /\ opReturned' = [opReturned EXCEPT ![c] = IF ok THEN "ok" ELSE "other"]
    /\ IF ok
       THEN /\ currentModelIndex' = validateIdx[c]
            /\ Finish(c, "init", "true", "", NoError, NoInfo, validateIdx[c], log[c])
            /\ UNCHANGED << primaryModel, fallbackModels, validateIdx, currentModel >>
       ELSE /\ UNCHANGED chainVars
            /\ ValidateFrom(c, validateIdx[c] + 1, log[c], FALSE)
    /\ UNCHANGED << kind, operationName, modelAttempt, retry, totalAttempts, lastError,
                    startIndex, opRaised >>
    /\ UNCHANGED unit

\* lines 747-749: the probe throws
ProbeThrows(c) ==
    /\ pc[c] = "inflight"
    /\ kind[c] = "init"
    /\ Sleep(c, "validationSleep", validationFailDelayMs,
             Append(log[c], Event("validationSleep", validateIdx[c])))
    /\ UNCHANGED << chainVars, localVars, outVars, opVars, sleptVars >>
    /\ UNCHANGED unit

\* the timer of line 749 fires
ValidationWake(c) ==
    /\ pc[c] = "validationSleep"
    /\ wait[c] = 0
    /\ UNCHANGED chainVars
    /\ ValidateFrom(c, validateIdx[c] + 1, log[c], FALSE)
    /\ UNCHANGED << kind, operationName, modelAttempt, retry, totalAttempts, lastError,
                    startIndex, opVars >>
    /\ UNCHANGED unit

\* ------------------------------------------------------------------- time
Sleeping(c) == pc[c] \in { "rateLimitSleep", "backoff", "cooldown", "validationSleep" }

\* The amounts of time that may pass in one step: up to the next firing of a
\* timer, or (fine) a short while as long as the rate limiter can tell.
TimeSteps(fine) ==
    { d \in { TimeStepMs } :
        /\ fine
        /\ \/ sinceLastCall < minDelayBetweenCallsMs
           \/ sinceGrant < minDelayBetweenCallsMs
           \/ \E c \in Procs : pc[c] = "rateLimitSleep" /\ wait[c] > 0 }
    \cup { wait[c] : c \in { q \in Procs : Sleeping(q) /\ wait[q] > 0 } }

\* d milliseconds pass
Tick(d) ==
    /\ d > 0
    /\ sinceLastCall' = Min(minDelayBetweenCallsMs, sinceLastCall + d)
    /\ sinceGrant' = Min(minDelayBetweenCallsMs, sinceGrant + d)
    /\ wait' = [ c \in Procs |-> Max(0, wait[c] - d) ]
    /\ UNCHANGED << chainVars, localVars, outVars, opVars, sleptVars, lastGap, pc, log >>
    /\ UNCHANGED unit

\* ------------------------------------------------- analyzeIdentity and co.
\* the texts the values of Results stand for: a fenced object, and an
\* object-like text that is not JSON and holds a keyword of isRetryableError
ResponseText ==
    [ r1 |-> Fence \o JsonTag \o << "\n" >> \o << "{", "\"", "a", "\"", ":", "1", "}" >> \o Fence,
      r2 |-> << "{", "t", "i", "m", "e", "o", "u", "t", "}" >> ]

MsgNoValidJson == << "N", "o", " ", "v", "a", "l", "i", "d", " ", "J", "S", "O", "N", " ", "f", "o", "u", "n", "d", " ", "i", "n", " ", "r", "e", "s", "p", "o", "n", "s", "e" >>

MsgUnexpectedToken == << "U", "n", "e", "x", "p", "e", "c", "t", "e", "d", " ", "t", "o", "k", "e", "n", " ", "i", "n", " ", "J", "S", "O", "N", ":", " " >>

\* the Error object a failed extractJson throws: its own error, or the
\* SyntaxError of JSON.parse, whose message quotes the text
ExtractionErrorOf(ret, text) ==
    IF ret.kind = "Error" THEN ErrorOf(MsgNoValidJson) ELSE ErrorOf(MsgUnexpectedToken \o text)

\* executeWithRetry has returned to analyzeIdentity (or one of its like), which
\* has not yet run extractJson on the response
AwaitsExtract(c) == pc[c] = "idle" /\ kind[c] = "exec" /\ result[c] = "ok"

\* extractJson inside the operation: its failure is handled as a failure of
\* the provider call (lines 815-822)
ExtractResponseRetried(c) ==
    /\ AwaitsExtract(c)
    /\ LET text == ResponseText[retval[c]]
           ret == extractJson(text)
       IN  IF ret.kind = "value"
           THEN /\ result' = [result EXCEPT ![c] = "extracted"]
                /\ UNCHANGED << thrown, pc, wait, log >>
           ELSE /\ thrown' = [thrown EXCEPT ![c] = ExtractionErrorOf(ret, text)]
                /\ IF isRetryableError(thrown'[c])
                   THEN /\ pc' = [pc EXCEPT ![c] = "backoff"]
                        /\ wait' = [wait EXCEPT ![c] = calculateBackoffDelay(retry[c], 0)]
                        /\ log' = [log EXCEPT ![c] = Append(@, Event("backoff", retry[c]))]
                        /\ result' = [result EXCEPT ![c] = "none"]
                   ELSE /\ result' = [result EXCEPT ![c] = "extractFailed"]
                        /\ UNCHANGED << pc, wait, log >>
    /\ UNCHANGED << chainVars, localVars, limiterVars, opVars, sleptVars,
                    retval, exhaustInfo, lastDone, unit >>

\* lines 907-908 (917-918, 927-928, 936-937, 945-946): the awaited call has
\* returned the response and extractJson is run on it
ExtractResponse(c) ==
    /\ AwaitsExtract(c)
    /\ LET text == ResponseText[retval[c]]
           ret == extractJson(text)
       IN  IF ret.kind = "value"
           THEN /\ result' = [result EXCEPT ![c] = "extracted"]
                /\ UNCHANGED thrown
           ELSE /\ result' = [result EXCEPT ![c] = "extractFailed"]
                /\ thrown' = [thrown EXCEPT ![c] = ExtractionErrorOf(ret, text)]
    /\ UNCHANGED << chainVars, localVars, limiterVars, opVars, sleptVars,
                    pc, wait, log, retval, exhaustInfo, lastDone, unit >>

\* ---------------------------------------------------------- specifications
Caller == "p1"

AllIdle == \A c \in Procs : pc[c] = "idle"

\* the steps of a call under way, the operation's outcomes drawn from the given sets
Step(c, results, errors, draws) ==
    \/ RateLimitWake(c)
    \/ Invoke(c)
    \/ \E r \in results : OperationReturns(c, r)
    \/ \E error \in errors, rnd \in draws : OperationThrows(c, error, rnd)
    \/ BackoffWake(c)
    \/ CooldownWake(c)
    \/ \E ok \in BOOLEAN : ProbeReturns(c, ok)
    \/ ProbeThrows(c)
    \/ ValidationWake(c)

\* one caller, one call at a time
Next ==
    \/ \E name \in OperationNames :
          AllIdle /\ ~AwaitsExtract(Caller) /\ ExecuteStart(Caller, name)
    \/ \E constructs \in BOOLEAN :
          AllIdle /\ ~AwaitsExtract(Caller) /\ InitializeStart(Caller, constructs)
    \/ Step(Caller, Results, OperationErrors, 0..(JitterSteps - 1))
    \/ ExtractResponse(Caller)
    \/ \E d \in TimeSteps(TRUE) : Tick(d)

Spec == Init /\ [][Next]_vars

\* the operation each caller runs when two calls are in flight together
NameOf == [ p1 |-> "generateWithImage", p2 |-> "generateWithText" ]

\* calls of the two callers in flight together
\* Both calls have ended and their callers have taken the outcomes: what the
\* calls left behind, apart from the service's own state, is dropped.
Collect ==
    /\ AllIdle
    /\ \E c \in Procs : result[c] # "none"
    /\ result' = [ c \in Procs |-> "none" ]
    /\ retval' = [ c \in Procs |-> "" ]
    /\ thrown' = [ c \in Procs |-> NoError ]
    /\ exhaustInfo' = [ c \in Procs |-> NoInfo ]
    /\ log' = [ c \in Procs |-> << >> ]
    /\ lastError' = [ c \in Procs |-> NoError ]
    /\ opRaised' = [ c \in Procs |-> NoError ]
    /\ opReturned' = [ c \in Procs |-> "" ]
    /\ kind' = [ c \in Procs |-> "none" ]
    /\ operationName' = [ c \in Procs |-> "" ]
    /\ modelAttempt' = [ c \in Procs |-> 0 ]
    /\ retry' = [ c \in Procs |-> 0 ]
    /\ totalAttempts' = [ c \in Procs |-> 0 ]
    /\ currentModel' = [ c \in Procs |-> Null ]
    /\ validateIdx' = [ c \in Procs |-> 0 ]
    /\ startIndex' = [ c \in Procs |-> 0 ]
    /\ lastDone' = NoneDone
    /\ rateSlept' = [ c \in Procs |-> FALSE ]
    /\ UNCHANGED << chainVars, limiterVars, pc, wait >>
    /\ UNCHANGED unit

\* Each caller has at most one call in flight and starts its next one only
\* after both callers' calls have ended and been collected.  Time passes from
\* one firing of a timer to the next.
NextConc ==
    \/ \E c \in Procs : result[c] = "none" /\ ExecuteStart(c, NameOf[c])
    \/ \E c \in Procs, constructs \in BOOLEAN :
          result[c] = "none" /\ InitializeStart(c, constructs)
    \/ Collect
    \/ \E c \in Procs : Step(c, { "r1" }, { ErrorOf(Msg429), ErrorOf(MsgInvalid) }, { 0 })
    \/ \E d \in TimeSteps(FALSE) : Tick(d)

SpecConc == Init /\ [][NextConc]_vars

\* execute calls of the two callers in flight together on a service that was
\* initialized before them
BusyStep(c) == Step(c, { "r1" }, { ErrorOf(Msg429), ErrorOf(MsgInvalid) }, { 0 })

NextBusy ==
    \/ /\ AllIdle
       /\ primaryModel = Null
       /\ \A c \in Procs : result[c] = "none"
       /\ InitializeStart(Caller, TRUE)
    \/ \E c \in Procs :
          /\ primaryModel # Null
          /\ \A q \in Procs : kind[q] # "init"
          /\ result[c] = "none"
          /\ ExecuteStart(c, NameOf[c])
    \/ Collect
    \/ \E c \in Procs : BusyStep(c)
    \/ \E d \in TimeSteps(FALSE) : Tick(d)

\* the event loop runs every continuation that is ready, every operation
\* settles, and every timer fires
Scheduling ==
    /\ \A c \in Procs : WF_vars(BusyStep(c))
    /\ WF_vars(\E d \in TimeSteps(FALSE) : Tick(d))

SpecBusy == Init /\ [][NextBusy]_vars /\ Scheduling

\* ------------------------------------------- functions called on their own
\* everything but the model chain and the function called on its own
callVars == << localVars, outVars, limiterVars, opVars, sleptVars, pc, wait, log >>

\* the handles are constructed (lines 720-726) and the cursor is on any of
\* them; the operations of the chain are about to be called on their own
InitChain ==
    /\ primaryModel = MODEL_CHAIN[1]
    /\ fallbackModels = Tail(MODEL_CHAIN)
    /\ currentModelIndex \in 0..(ChainLength - 1)
    /\ NoCalls
    /\ unit = [ fn |-> "chain", start |-> currentModelIndex, calls |-> << >> ]

\* getNextModel() is called; the handle it returns is recorded
getNextModelCall ==
    /\ unit.fn = "chain"
    /\ Len(unit.calls) < MaxChainCalls
    /\ currentModelIndex' = getNextModel.index
    /\ unit' = [unit EXCEPT !.calls =
                  Append(@, [ op |-> "getNextModel", ret |-> getNextModel.model ])]
    /\ UNCHANGED << primaryModel, fallbackModels, callVars >>

\* resetToMainModel() is called
resetToMainModelCall ==
    /\ unit.fn = "chain"
    /\ Len(unit.calls) < MaxChainCalls
    /\ currentModelIndex' = resetToMainModel
    /\ unit' = [unit EXCEPT !.calls =
                  Append(@, [ op |-> "resetToMainModel", ret |-> Null ])]
    /\ UNCHANGED << primaryModel, fallbackModels, callVars >>

NextChain ==
    \/ getNextModelCall
    \/ resetToMainModelCall

SpecChain == InitChain /\ [][NextChain]_vars

\* String.prototype.toUpperCase, on the letters of UpperToLower
toUpperCase(s) ==
    [ n \in 1..Len(s) |->
        IF \E u \in DOMAIN UpperToLower : UpperToLower[u] = s[n]
        THEN CHOOSE u \in DOMAIN UpperToLower : UpperToLower[u] = s[n]
        ELSE s[n] ]

\* s with its first letter in upper case
Capitalized(s) == IF s = << >> THEN s ELSE toUpperCase(SubSeq(s, 1, 1)) \o Tail(s)

\* texts that hold none of the keywords of lines 682-690, some of them nearly
NearMisses ==
    { << >>,
      <<"n", "e", "t", " ", "w", "o", "r", "k">>,
      <<"t", "i", "m", "e", " ", "o", "u", "t">>,
      <<"4", "2", " ", "9">>,
      <<"5", "0", "4">>,
      <<"q", "u", "o", "t", "e">>,
      <<"o", "v", "e", "r", "l", "o", "a", "d">> }

\* what the messages given to isRetryableError are built around
MessageCores ==
    RetryableKeywords
    \cup { toUpperCase(k) : k \in RetryableKeywords }
    \cup { Capitalized(k) : k \in RetryableKeywords }
    \cup { Msg429, MsgQuota, MsgNetwork, MsgInvalid, MsgPermission, MsgTimeoutUpper }
    \cup NearMisses

MessagePrefixes == { << >>, <<"E", "r", "r", "o", "r", ":", " ">> }

MessageSuffixes == { << >>, <<".">> }

Messages ==
    { p \o c \o s : p \in MessagePrefixes, c \in MessageCores, s \in MessageSuffixes }

\* the values isRetryableError is called with: Error objects, bare strings, null
ClassifierInputs ==
    { ErrorOf(m) : m \in Messages } \cup { StringOf(m) : m \in Messages } \cup { NoError }

\* isRetryableError is about to be called on its own with a value of ClassifierInputs
InitClassify ==
    /\ primaryModel = Null
    /\ fallbackModels = << >>
    /\ currentModelIndex = 0
    /\ NoCalls
    /\ \E error \in ClassifierInputs :
         unit = [ fn |-> "isRetryableError", error |-> error, done |-> FALSE, ret |-> FALSE ]

\* isRetryableError(error) is called and returns
isRetryableErrorCall ==
    /\ unit.fn = "isRetryableError"
    /\ ~unit.done
    /\ unit' = [unit EXCEPT !.done = TRUE, !.ret = isRetryableError(unit.error)]
    /\ UNCHANGED << chainVars, callVars >>

NextClassify == isRetryableErrorCall

SpecClassify == InitClassify /\ [][NextClassify]_vars

\* calculateBackoffDelay is about to be called on its own with an attempt
\* index; rnd is what Math.random() will draw
InitBackoff ==
    /\ primaryModel = Null
    /\ fallbackModels = << >>
    /\ currentModelIndex = 0
    /\ NoCalls
    /\ \E attempt \in 0..MaxAttemptIndex, rnd \in 0..(JitterSteps - 1) :
         unit = [ fn |-> "calculateBackoffDelay", attempt |-> attempt, rnd |-> rnd,
                  done |-> FALSE, ret |-> 0 ]

\* calculateBackoffDelay(attempt) is called and returns
calculateBackoffDelayCall ==
    /\ unit.fn = "calculateBackoffDelay"
    /\ ~unit.done
    /\ unit' = [unit EXCEPT !.done = TRUE,
                            !.ret = calculateBackoffDelay(unit.attempt, unit.rnd)]
    /\ UNCHANGED << chainVars, callVars >>

NextBackoff == calculateBackoffDelayCall

SpecBackoff == InitBackoff /\ [][NextBackoff]_vars

\* the pieces the response texts given to extractJson are made of
SegHere == << "H", "e", "r", "e", " ", "i", "s", " ", "d", "a", "t", "a", ":", " " >>
SegDone == << " ", "d", "o", "n", "e" >>
SegFenceJson == Fence \o JsonTag \o << "\n" >>
SegA1 == << "{", "\"", "a", "\"", ":", "1", "}" >>
SegB2 == << "{", "\"", "b", "\"", ":", " ", "2", "}" >>
SegCloseBrace == << "}" >>

Segments == { SegHere, SegDone, Fence, SegFenceJson, SegA1, SegB2, SegCloseBrace }

RECURSIVE Concat(_)
Concat(segs) == IF segs = << >> THEN << >> ELSE Head(segs) \o Concat(Tail(segs))

\* the response texts: up to MaxSegments pieces in any order
ResponseTexts ==
    { Concat(segs) : segs \in UNION { [ 1..n -> Segments ] : n \in 0..MaxSegments } }

NotReturned == [ kind |-> "none", value |-> NoValue, message |-> "" ]

\* extractJson is about to be called on its own with a response text
InitExtract ==
    /\ primaryModel = Null
    /\ fallbackModels = << >>
    /\ currentModelIndex = 0
    /\ NoCalls
    /\ \E text \in ResponseTexts :
         unit = [ fn |-> "extractJson", text |-> text, done |-> FALSE, ret |-> NotReturned ]

\* extractJson(text) is called and returns or throws
extractJsonCall ==
    /\ unit.fn = "extractJson"
    /\ ~unit.done
    /\ unit' = [unit EXCEPT !.done = TRUE, !.ret = extractJson(unit.text)]
    /\ UNCHANGED << chainVars, callVars >>

NextExtract == extractJsonCall

SpecExtract == InitExtract /\ [][NextExtract]_vars

\* ----------------------------------------------------- reading the log
EventsOf(lg, names) == SelectSeq(lg, LAMBDA e : e.ev \in names)

Count(lg, name) == Len(EventsOf(lg, { name }))

\* the chain positions of the backends the call invoked, in order
InvokeArgs(lg) ==
    LET inv == EventsOf(lg, { "invoke" })
    IN  [ n \in 1..Len(inv) |-> inv[n].arg ]

\* how often the call invoked the backend at chain position k
InvokeCount(lg, k) == Len(SelectSeq(lg, LAMBDA e : e.ev = "invoke" /\ e.arg = k))

\* the position in lg of the n-th event named name
RECURSIVE PositionOf(_, _, _)
PositionOf(lg, name, n) ==
    LET first == CHOOSE m \in 1..Len(lg) : lg[m].ev = name /\ \A l \in 1..(m - 1) : lg[l].ev # name
    IN  IF n = 1 THEN first
        ELSE first + PositionOf(SubSeq(lg, first + 1, Len(lg)), name, n - 1)

\* the errors of OperationErrors that are not retryable
FatalErrors == { ErrorOf(MsgInvalid), StringOf(Msg429) }

\* an execute call of c is under way, or has just ended
InExec(c) == kind[c] = "exec" /\ pc[c] # "idle"
EndedExec(c, res) == kind[c] = "exec" /\ pc[c] = "idle" /\ result[c] = res

\* ------------------------------------------------------------------- C1
\* C1: when the operation raises a non-retryable error, execute raises at
\* once: the call ends with that failure in the same step, nothing is added to
\* what the call did (no invocation, no backoff, no cool-down, no advance),
\* and the cursor stays where it was, on the backend just invoked.
C1_FatalRaisesAtOnce ==
    [][ \A c \in Procs :
          ( /\ pc[c] = "inflight"
            /\ kind[c] = "exec"
            /\ pc'[c] # "inflight"
            /\ opRaised'[c] \in FatalErrors )
          => ( /\ pc'[c] = "idle"
               /\ result'[c] = "fatal"
               /\ wait'[c] = 0
               /\ log'[c] = log[c]
               /\ log[c][Len(log[c])].ev = "invoke"
               /\ currentModelIndex = log[c][Len(log[c])].arg
               /\ currentModelIndex' = currentModelIndex ) ]_vars

\* a fatal error on a fallback backend, after earlier retryable failures
C1_Witness ==
    /\ EndedExec(Caller, "fatal")
    /\ Count(log[Caller], "backoff") >= RETRY_CONFIG.maxRetries
    /\ currentModelIndex > 0

\* ------------------------------------------------------------------- C2
ExpectedInvokes ==
    [ n \in 1..(ChainLength * RETRY_CONFIG.maxRetries) |-> (n - 1) \div RETRY_CONFIG.maxRetries ]

\* C2: a call that found the cursor on the primary and whose every invocation
\* fails with a retryable error invokes the backends in chain order, maxRetries
\* times each; it raises the exhaustion error after exactly
\* ChainLength * maxRetries invocations, not earlier and not later, and reports
\* that number as totalAttempts.
C2_ExhaustsAfterAllAttempts ==
    \A c \in Procs :
      (kind[c] = "exec" /\ startIndex[c] = 0) =>
        LET inv == InvokeArgs(log[c])
        IN  /\ Len(inv) <= Len(ExpectedInvokes)
            /\ inv = SubSeq(ExpectedInvokes, 1, Len(inv))
            /\ EndedExec(c, "exhausted") =>
                 /\ inv = ExpectedInvokes
                 /\ exhaustInfo[c].totalAttempts = ChainLength * RETRY_CONFIG.maxRetries
            /\ (Count(log[c], "backoff") = Len(ExpectedInvokes) /\ pc[c] # "backoff") =>
                 EndedExec(c, "exhausted")

C2_Witness ==
    /\ EndedExec(Caller, "exhausted")
    /\ startIndex[Caller] = 0
    /\ Len(InvokeArgs(log[Caller])) = ChainLength * RETRY_CONFIG.maxRetries

\* ------------------------------------------------------------------- C3
\* C3: execute raises the exhaustion error only if every backend of the chain,
\* the primary included, was invoked maxRetries times within the call,
\* whatever the cursor was when the call started.
C3_ExhaustedOnlyAfterEveryBackend ==
    \A c \in Procs :
      EndedExec(c, "exhausted") =>
        \A k \in 0..(ChainLength - 1) : InvokeCount(log[c], k) = RETRY_CONFIG.maxRetries

\* ------------------------------------------------------------------- C4
\* the call's last 2 * maxRetries doings are maxRetries invocations of the
\* backend at position k, each followed by the backoff of its retry index
FailedBudgetOn(lg, k) ==
    LET did == EventsOf(lg, { "invoke", "backoff", "advance", "cooldown" })
        from == Len(did) - 2 * RETRY_CONFIG.maxRetries
    IN  /\ from >= 0
        /\ \A j \in 0..(RETRY_CONFIG.maxRetries - 1) :
             /\ did[from + 2 * j + 1] = Event("invoke", k)
             /\ did[from + 2 * j + 2] = Event("backoff", j)

\* C4: a step of execute moves the cursor forward only by one position, and
\* only when the call has just failed maxRetries invocations in a row on the
\* backend the cursor is on, each with a retryable error; so not after a
\* success, a fatal error, or fewer failures.
C4_AdvanceOnlyAfterBudget ==
    [][ \A c \in Procs :
          (InExec(c) /\ pc'[c] # pc[c] /\ currentModelIndex' > currentModelIndex)
          => ( /\ currentModelIndex' = currentModelIndex + 1
               /\ pc[c] = "backoff"
               /\ FailedBudgetOn(log[c], currentModelIndex) ) ]_vars

\* the call has moved the cursor twice
C4_Witness ==
    /\ InExec(Caller)
    /\ pc[Caller] = "cooldown"
    /\ Count(log[Caller], "advance") = 2
    /\ currentModelIndex = startIndex[Caller] + 2

\* ------------------------------------------------------------------- C5
\* C5: a call that found the cursor on the primary, was failed maxRetries
\* times with retryable errors and then served, made these invocations on
\* backend 0 and the served one on backend 1; it returns what the operation
\* returned, the cursor ends on 1, and before the served invocation it slept
\* at least one backoff and exactly one cool-down, the cool-down after the
\* last invocation of backend 0 and before the first of backend 1.
C5_FallbackSucceeds ==
    \A c \in Procs :
      ( /\ EndedExec(c, "ok")
        /\ startIndex[c] = 0
        /\ Len(InvokeArgs(log[c])) = RETRY_CONFIG.maxRetries + 1 )
      => LET lg == log[c]
             R == RETRY_CONFIG.maxRetries
         IN  /\ InvokeArgs(lg) = [ n \in 1..(R + 1) |-> IF n <= R THEN 0 ELSE 1 ]
             /\ retval[c] = opReturned[c]
             /\ retval[c] \in Results
             /\ currentModelIndex = 1
             /\ Count(lg, "backoff") >= 1
             /\ Count(lg, "cooldown") = 1
             /\ PositionOf(lg, "backoff", 1) < PositionOf(lg, "invoke", R + 1)
             /\ PositionOf(lg, "invoke", R) < PositionOf(lg, "cooldown", 1)
             /\ PositionOf(lg, "cooldown", 1) < PositionOf(lg, "invoke", R + 1)

C5_Witness ==
    /\ EndedExec(Caller, "ok")
    /\ startIndex[Caller] = 0
    /\ InvokeArgs(log[Caller]) = << 0, 0, 0, 1 >>
    /\ retval[Caller] = "r2"

\* ------------------------------------------------------------------- C6
\* the call that ended before the one under way was an execute call that
\* returned a result
AfterSuccess(c) == InExec(c) /\ lastDone.kind = "exec" /\ lastDone.result = "ok"

C7_ResetAfterFallbackSuccess ==
    \A c \in Procs :
      (AfterSuccess(c) /\ lastDone.backend > 0 /\ Len(InvokeArgs(log[c])) > 0)
      => InvokeArgs(log[c])[1] = 0

\* ------------------------------------------------------------------- C8
\* C8: when a call ends with the exhaustion error the cursor is 0, and the
\* next execute call makes its first invocation on the primary backend.
C8_ResetOnExhaustion ==
    \A c \in Procs :
      /\ EndedExec(c, "exhausted") => currentModelIndex = 0
      /\ ( /\ InExec(c)
           /\ lastDone.kind = "exec"
           /\ lastDone.result = "exhausted"
           /\ Len(InvokeArgs(log[c])) > 0 )
         => InvokeArgs(log[c])[1] = 0

\* the call after an exhausted one has invoked the primary
C8_Witness ==
    /\ InExec(Caller)
    /\ lastDone.kind = "exec"
    /\ lastDone.result = "exhausted"
    /\ InvokeArgs(log[Caller]) = << 0 >>

\* ------------------------------------------------------------------- C9
\* C9: under any interleaving of concurrent calls, two returns of
\* enforceRateLimit are at least minDelayBetweenCallsMs apart.
C9_SpacingUnderConcurrency ==
    lastGap >= minDelayBetweenCallsMs

\* ------------------------------------------------------------------ C10
\* C10: with one caller, every invocation of the provider (an attempt of an
\* operation or a validation probe) comes right after an enforceRateLimit of
\* its own, and two consecutive returns of enforceRateLimit are at least
\* minDelayBetweenCallsMs apart.
C10_SpacingOneCaller ==
    /\ lastGap >= minDelayBetweenCallsMs
    /\ \A c \in Procs :
         \A n \in 1..Len(log[c]) :
           log[c][n].ev = "invoke" => (n > 1 /\ log[c][n - 1].ev = "acquire")
    /\ \A c \in Procs :
         Count(log[c], "invoke") <= Count(log[c], "acquire")

\* enforceRateLimit has just returned after it had to sleep, right after the
\* call before
C10_Witness ==
    /\ pc[Caller] = "acquired"
    /\ sinceGrant = 0
    /\ rateSlept[Caller]
    /\ Count(log[Caller], "acquire") = 2

\* ------------------------------------------------------------------ C11
\* both callers run executeWithRetry in this round
BothExec == \A q \in Procs : kind[q] = "exec"

\* C11: with two execute calls in flight together, no backend is skipped
\* twice: the backends a call invokes one after the other are the same or the
\* next chain position, and when both calls found the cursor on backend k and
\* each spent its retry budget there (each advanced once), the cursor is k + 1.
C11_NoDoubleSkip ==
    BothExec =>
      /\ \A c \in Procs :
           LET inv == InvokeArgs(log[c])
           IN  \A n \in 1..(Len(inv) - 1) : inv[n + 1] \in { inv[n], inv[n] + 1 }
      /\ ( /\ \A c \in Procs : startIndex[c] = startIndex[Caller]
           /\ \A c \in Procs :
                /\ pc[c] = "cooldown"
                /\ Count(log[c], "advance") = 1
                /\ InvokeCount(log[c], startIndex[c]) = RETRY_CONFIG.maxRetries )
         => currentModelIndex = startIndex[Caller] + 1

\* ------------------------------------------------------------------ C12
\* the number of backend handles that are constructed
ConstructedBackends == (IF primaryModel = Null THEN 0 ELSE 1) + Len(fallbackModels)

\* C12: once a call has ended, the cursor is a position of a constructed
\* backend (position 0 when nothing is constructed), and getCurrentModel
\* returns the handle constructed for that position of the chain.
C12_CursorOnConstructedBackend ==
    lastDone.kind # "none" =>
      /\ currentModelIndex \in 0..Max(0, ConstructedBackends - 1)
      /\ primaryModel # Null => getCurrentModel = MODEL_CHAIN[currentModelIndex + 1]

\* ------------------------------------------------------------------ C13
\* the first n calls made on the chain were calls of getNextModel
OnlyAdvanced(n) ==
    /\ n <= Len(unit.calls)
    /\ \A m \in 1..n : unit.calls[m].op = "getNextModel"

\* C13: on the chain of ChainLength backends with the cursor on the primary,
\* each of the first ChainLength - 1 calls of getNextModel moves the cursor by
\* one and returns the handle getCurrentModel then returns (the one of the
\* next chain position); the next call returns null and leaves the cursor on
\* the last backend; after a resetToMainModel getCurrentModel returns the
\* primary.
C13_AdvanceAndReset ==
    (unit.fn = "chain" /\ unit.start = 0) =>
      LET calls == unit.calls
          n == Len(calls)
      IN  /\ (n >= 1 /\ n <= ChainLength - 1 /\ OnlyAdvanced(n)) =>
                /\ currentModelIndex = n
                /\ calls[n].ret = MODEL_CHAIN[n + 1]
                /\ calls[n].ret = getCurrentModel
          /\ (n = ChainLength /\ OnlyAdvanced(n)) =>
                /\ calls[n].ret = Null
                /\ currentModelIndex = ChainLength - 1
          /\ (n >= 1 /\ calls[n].op = "resetToMainModel") =>
                /\ currentModelIndex = 0
                /\ getCurrentModel = MODEL_CHAIN[1]

\* the chain was advanced to its end, once more, and then reset
C13_Witness ==
    /\ unit.fn = "chain"
    /\ unit.start = 0
    /\ Len(unit.calls) = ChainLength + 1
    /\ OnlyAdvanced(ChainLength)
    /\ unit.calls[ChainLength + 1].op = "resetToMainModel"

\* ------------------------------------------------------------------ C14
\* a is the character b of a keyword, in either case
SameLetter(a, b) == a = b \/ (a \in DOMAIN UpperToLower /\ UpperToLower[a] = b)

\* text holds keyword k somewhere, the case of its letters set aside
ContainsIgnoringCase(text, k) ==
    \E n \in 0..(Len(text) - Len(k)) : \A i \in 1..Len(k) : SameLetter(text[n + i], k[i])

HasKeyword(text) == \E k \in RetryableKeywords : ContainsIgnoringCase(text, k)

\* isRetryableError was called on its own with a value that has a text
Classified == unit.fn = "isRetryableError" /\ unit.done /\ unit.error.type # "null"

\* C14 as stated: isRetryableError is true exactly when the text of the raised
\* value (the message of an Error, the text of a string) holds one of the nine
\* keywords, the case of the letters set aside.
C14_RetryableIffKeyword ==
    Classified => (unit.ret <=> HasKeyword(unit.error.message))

\* C14 amended: isRetryableError is true exactly when the value is an Error
\* object whose message holds one of the nine keywords, the case of the
\* letters set aside; so it is true for the Errors "429", "Quota exceeded"
\* and "network error", and false for "invalid argument" and "permission
\* denied".
C14_RetryableIffErrorWithKeyword ==
    Classified =>
      /\ unit.ret <=> (unit.error.type = "Error" /\ HasKeyword(unit.error.message))
      /\ unit.error \in { ErrorOf(Msg429), ErrorOf(MsgQuota), ErrorOf(MsgNetwork) } => unit.ret
      /\ unit.error \in { ErrorOf(MsgInvalid), ErrorOf(MsgPermission) } => ~unit.ret

\* an Error whose message holds a keyword in another case was found retryable
C14_Witness ==
    /\ Classified
    /\ unit.error = ErrorOf(MsgQuota)
    /\ unit.ret

\* ------------------------------------------------------------------ C15
\* calculateBackoffDelay was called on its own
Delayed == unit.fn = "calculateBackoffDelay" /\ unit.done

\* base * multiplier ^ attemptIndex
Uncapped(attempt) ==
    RETRY_CONFIG.baseDelayMs * Pow(RETRY_CONFIG.backoffMultiplier, attempt)

\* C15 as stated: for every attempt index and every jitter draw the delay is
\* at least base * multiplier ^ attemptIndex, also where that exceeds maxDelay.
C15_AtLeastUncappedBase ==
    Delayed => unit.ret >= Uncapped(unit.attempt)

\* C15 amended: for every attempt index and every jitter draw, the delay is at
\* least base * multiplier ^ attemptIndex where that does not exceed maxDelay,
\* and is maxDelay where it does.
C15_AtLeastBaseUpToMaxDelay ==
    Delayed =>
      IF Uncapped(unit.attempt) <= RETRY_CONFIG.maxDelayMs
      THEN unit.ret >= Uncapped(unit.attempt)
      ELSE unit.ret = RETRY_CONFIG.maxDelayMs

\* a delay for an attempt index whose uncapped base exceeds maxDelay
C15_Witness ==
    /\ Delayed
    /\ Uncapped(unit.attempt) > RETRY_CONFIG.maxDelayMs
    /\ unit.rnd > 0
    /\ unit.ret = RETRY_CONFIG.maxDelayMs

\* ------------------------------------------------------------------ C16
\* C16: for every attempt index and every jitter draw, with
\* b = base * multiplier ^ attemptIndex, the delay is at least min(b, maxDelay)
\* and at most 1.3 * min(b, maxDelay): the jitter never takes the delay below
\* the capped base.
C16_WithinJitterOfCappedBase ==
    Delayed =>
      LET capped == Min(Uncapped(unit.attempt), RETRY_CONFIG.maxDelayMs)
      IN  /\ capped <= unit.ret
          /\ 10 * unit.ret <= 13 * capped

\* a delay that the jitter raised above its base
C16_Witness ==
    /\ Delayed
    /\ unit.rnd > 0
    /\ unit.ret > Uncapped(unit.attempt)
    /\ unit.ret < RETRY_CONFIG.maxDelayMs

\* ------------------------------------------------------------------ C17
\* extractJson was called on its own
Extracted == unit.fn = "extractJson" /\ unit.done

\* val is the object { a: 1 }
IsA1(val) ==
    /\ val.t = "object"
    /\ Len(val.v) = 1
    /\ val.v[1].key = << "a" >>
    /\ val.v[1].val.t = "number"
    /\ val.v[1].val.v = 1

\* the first fence of the text opens a block whose interior is {"a":1}
FencedA1(text) ==
    LET open == indexOf(text, Fence, 1)
    IN  /\ open > 0
        /\ \E opening \in { Fence, SegFenceJson } :
             LET block == opening \o SegA1 \o Fence
             IN  slice(text, open, open + Len(block) - 1) = block

NoBraces(text) == \A n \in 1..Len(text) : text[n] \notin { "{", "}" }

\* extractJson returns { a: 1 } for the fenced and for the embedded {"a":1}
C17_ReturnsPayload ==
    (Extracted /\ (FencedA1(unit.text) \/ unit.text = SegHere \o SegA1 \o SegDone))
    => (unit.ret.kind = "value" /\ IsA1(unit.ret.value))

\* C17: extractJson returns { a: 1 } for a text with a fenced block whose
\* interior is {"a":1} and for the text  Here is data: {"a":1} done  without
\* fences; for a text without any brace it throws the error of line 898,
\* 'No valid JSON found in response'.
C17_ExtractsOrRaisesExtractionError ==
    /\ C17_ReturnsPayload
    /\ (Extracted /\ NoBraces(unit.text))
       => unit.ret = ThrowsError("No valid JSON found in response")

\* ------------------------------------------------------------------ C18
\* C18 as stated: the value a call throws on a non-retryable failure is the
\* value the operation threw, whatever kind of value that is.
C18_FatalValueUnchanged ==
    \A c \in Procs : EndedExec(c, "fatal") => thrown[c] = opRaised[c]

\* C18 amended: on a non-retryable failure the call throws the value the
\* operation threw when that is an Error object, and a new Error whose message
\* is the text of the value when it is not.
C18_FatalErrorUnchangedElseWrapped ==
    \A c \in Procs :
      EndedExec(c, "fatal") =>
        /\ opRaised[c] \in FatalErrors
        /\ opRaised[c].type = "Error" => thrown[c] = opRaised[c]
        /\ opRaised[c].type # "Error" => thrown[c] = ErrorOf(opRaised[c].message)

\* a thrown string has ended a call
C18_Witness ==
    /\ EndedExec(Caller, "fatal")
    /\ opRaised[Caller] = StringOf(Msg429)
    /\ thrown[Caller] = ErrorOf(Msg429)

\* ------------------------------------------------------------------ C19
\* C19: the exhaustion error names the operation the call was given, states
\* as total attempts the number of times the call invoked the operation, and
\* gives the message of the error the call's last invocation threw.
C19_ExhaustionErrorContents ==
    \A c \in Procs :
      EndedExec(c, "exhausted") =>
        /\ exhaustInfo[c].operationName = operationName[c]
        /\ exhaustInfo[c].operationName \in OperationNames
        /\ exhaustInfo[c].totalAttempts = Count(log[c], "invoke")
        /\ Count(log[c], "backoff") = Count(log[c], "invoke")
        /\ opRaised[c].type = "Error"
        /\ exhaustInfo[c].lastError = opRaised[c]

\* a call that started on a fallback backend was exhausted by quota errors
C19_Witness ==
    /\ EndedExec(Caller, "exhausted")
    /\ startIndex[Caller] = 1
    /\ exhaustInfo[Caller].operationName = "generateWithText"
    /\ exhaustInfo[Caller].totalAttempts = (ChainLength - 1) * RETRY_CONFIG.maxRetries
    /\ exhaustInfo[Caller].lastError = ErrorOf(MsgQuota)

\* ------------------------------------------------------------------ C20
\* an initializeGemini call of c is under way, or has ended
InInit(c) == kind[c] = "init"
EndedInit(c, res) == kind[c] = "init" /\ pc[c] = "idle" /\ result[c] = res

\* C20: initializeGemini probes the backends in chain order from the primary,
\* each probe right after an enforceRateLimit of its own; it ends with true
\* exactly when a probe was answered with 'ok', right at that probe (no later
\* backend is probed) and with the cursor on the backend of that probe; it
\* ends with false only when the handles were not constructed or every
\* backend of the chain was probed.
C20_ValidationInChainOrder ==
    \A c \in Procs :
      InInit(c) =>
        LET lg == log[c]
            inv == InvokeArgs(lg)
        IN  /\ \A n \in 1..Len(inv) : inv[n] = n - 1
            /\ \A n \in 1..Len(lg) :
                 lg[n].ev = "invoke" => (n > 1 /\ lg[n - 1].ev = "acquire")
            /\ Count(lg, "acquire") - Count(lg, "invoke") \in { 0, 1 }
            /\ pc[c] = "idle" => (result[c] = "true" <=> opReturned[c] = "ok")
            /\ EndedInit(c, "true") =>
                 /\ lg[Len(lg)] = Event("invoke", Len(inv) - 1)
                 /\ currentModelIndex = Len(inv) - 1
            /\ EndedInit(c, "false") => (primaryModel = Null \/ Len(inv) = ChainLength)

\* validation ended on the third backend, after a probe that threw and one
\* that was answered without 'ok'
C20_Witness ==
    /\ EndedInit(Caller, "true")
    /\ InvokeArgs(log[Caller]) = << 0, 1, 2 >>
    /\ Count(log[Caller], "validationSleep") = 1
    /\ currentModelIndex = 2

\* ------------------------------------------------------------------ C21
\* the text has a fenced block: a fence with a fence after it
HasBlock(text) ==
    LET open == indexOf(text, Fence, 1)
    IN  open > 0 /\ indexOf(text, Fence, open + Len(Fence)) > 0

\* the trimmed interior of the first fenced block, its json tag left out
BlockInterior(text) ==
    LET body == indexOf(text, Fence, 1) + Len(Fence)
        raw == slice(text, body, indexOf(text, Fence, body) - 1)
    IN  trim(IF slice(raw, 1, Len(JsonTag)) = JsonTag
             THEN slice(raw, Len(JsonTag) + 1, Len(raw))
             ELSE raw)

\* the text has one opening and one closing brace, in this order
OneObject(text) ==
    /\ Cardinality({ n \in 1..Len(text) : text[n] = "{" }) = 1
    /\ Cardinality({ n \in 1..Len(text) : text[n] = "}" }) = 1
    /\ indexOf(text, << "{" >>, 1) < indexOf(text, << "}" >>, 1)

\* what lies between the braces of such a text, braces included
TheObject(text) == slice(text, indexOf(text, << "{" >>, 1), indexOf(text, << "}" >>, 1))

\* extractJson returned the value val
Returned(val) ==
    /\ unit.ret.kind = "value"
    /\ unit.ret.value.t = val.t
    /\ unit.ret.value.v = val.v

\* C21: when the text has a fenced block whose trimmed interior does not
\* parse, extractJson goes on to look for an object literal in the whole
\* text and returns it when it parses.
C21_FallsThroughToObjectSearch ==
    ( /\ Extracted
      /\ HasBlock(unit.text)
      /\ ~JSONparse(BlockInterior(unit.text)).ok
      /\ OneObject(unit.text)
      /\ JSONparse(TheObject(unit.text)).ok )
    => Returned(JSONparse(TheObject(unit.text)).val)

\* ------------------------------------------------------------------ C22
\* the position of the brace that closes the object open at depth before
\* position i, or 0 when the text ends first
RECURSIVE MatchingBrace(_, _, _)
MatchingBrace(s, i, depth) ==
    IF i > Len(s) THEN 0
    ELSE IF s[i] = "{" THEN MatchingBrace(s, i + 1, depth + 1)
    ELSE IF s[i] = "}" THEN (IF depth = 1 THEN i ELSE MatchingBrace(s, i + 1, depth - 1))
    ELSE MatchingBrace(s, i + 1, depth)

\* the first balanced object literal of the text: from its first opening
\* brace to the brace that closes it (empty when there is none)
FirstBalancedObject(text) ==
    LET brace == indexOf(text, << "{" >>, 1)
        closing == IF brace = 0 THEN 0 ELSE MatchingBrace(text, brace + 1, 1)
    IN  IF closing = 0 THEN << >> ELSE slice(text, brace, closing)

\* C22: for a text without a fenced block, extractJson parses the first
\* balanced object literal of the text and returns it, also when another
\* object or a closing brace comes after it.
C22_FirstBalancedObject ==
    ( /\ Extracted
      /\ ~HasBlock(unit.text)
      /\ JSONparse(FirstBalancedObject(unit.text)).ok )
    => Returned(JSONparse(FirstBalancedObject(unit.text)).val)

\* ------------------------------------------------------------------ C23
\* C23: whenever extractJson fails (no fence and no braces, a fenced interior
\* that does not parse, a brace substring that does not parse), what it
\* throws is its own extraction error, never the SyntaxError of JSON.parse.
C23_OneExtractionErrorKind ==
    (Extracted /\ unit.ret.kind # "value") => unit.ret.kind = "Error"

\* ------------------------------------------------------------------ C24
\* C24: when the provider call has succeeded and extractJson fails on its
\* response, the failure goes to the caller in that step: the call stays
\* ended, and what the call did (invocations, backoffs, cool-downs, advances),
\* the rate limiter and the cursor are as they were, also when the text of
\* the error holds a keyword of isRetryableError.
C24_ExtractionFailureNotRetried ==
    [][ \A c \in Procs :
          ( /\ AwaitsExtract(c)
            /\ extractJson(ResponseText[retval[c]]).kind # "value"
            /\ result'[c] # result[c] )
          => ( /\ result'[c] = "extractFailed"
               /\ thrown'[c].type = "Error"
               /\ pc'[c] = "idle"
               /\ wait'[c] = 0
               /\ log'[c] = log[c]
               /\ totalAttempts'[c] = totalAttempts[c]
               /\ sinceLastCall' = sinceLastCall
               /\ sinceGrant' = sinceGrant
               /\ currentModelIndex' = currentModelIndex ) ]_vars

\* an extraction failure whose text holds a keyword, after a call that was
\* served by a fallback backend on a retry
C24_Witness ==
    /\ result[Caller] = "extractFailed"
    /\ isRetryableError(thrown[Caller])
    /\ currentModelIndex > 0
    /\ retry[Caller] > 0

\* ------------------------------------------------------------------ C25
\* C25: a call of executeWithRetry invokes the operation at most
\* chainLength * maxRetries times, and, every invocation settling and every
\* timer firing, a call under way ends, also when other calls advance or
\* reset the cursor meanwhile.
C25_BoundedAndTerminates ==
    /\ [](\A c \in Procs :
            kind[c] = "exec" => Count(log[c], "invoke") <= ChainLength * RETRY_CONFIG.maxRetries)
    /\ \A c \in Procs : InExec(c) ~> ~InExec(c)

\* a call that used up all invocations while the other call moved the cursor
\* back under it
C25_Witness ==
    \E c \in Procs :
        /\ EndedExec(c, "exhausted")
        /\ Count(log[c], "invoke") = ChainLength * RETRY_CONFIG.maxRetries
        /\ \E n \in 1..(Len(InvokeArgs(log[c])) - 1) :
              InvokeArgs(log[c])[n + 1] < InvokeArgs(log[c])[n]

\* ------------------------------------------------------------------ C26
\* the invocations of the pass of the outer loop that lg ends in
RECURSIVE InvokesInPass(_)
InvokesInPass(lg) ==
    IF lg = << >> \/ lg[Len(lg)].ev = "advance" THEN 0
    ELSE InvokesInPass(SubSeq(lg, 1, Len(lg) - 1)) + (IF lg[Len(lg)].ev = "invoke" THEN 1 ELSE 0)

\* C26: after every retryable failure of the operation, the last attempt on a
\* backend and on the last backend included, the call sleeps one backoff
\* delay computed from the retry index of the backend (0 .. maxRetries-1, from
\* 0 on each backend), and only when that sleep is over does it retry,
\* advance and cool down, or raise the exhaustion error.
C26_BackoffAfterEveryRetryable ==
    [][ \A c \in Procs :
          /\ ( /\ pc[c] = "inflight" /\ kind[c] = "exec"
               /\ pc'[c] # "inflight" /\ result'[c] # "ok"
               /\ isRetryableError(opRaised'[c]) )
             => ( /\ pc'[c] = "backoff"
                  /\ retry[c] \in 0..(RETRY_CONFIG.maxRetries - 1)
                  /\ retry[c] = InvokesInPass(log[c]) - 1
                  /\ \E rnd \in 0..(JitterSteps - 1) :
                        wait'[c] = calculateBackoffDelay(retry[c], rnd) )
          /\ (pc[c] = "backoff" /\ pc'[c] # "backoff") => wait[c] = 0
          /\ ( /\ kind[c] = "exec" /\ kind'[c] = "exec" /\ pc[c] # "idle"
               /\ \/ Count(log'[c], "invoke") > Count(log[c], "invoke") /\ Count(log[c], "invoke") > 0
                  \/ Count(log'[c], "advance") > Count(log[c], "advance")
                  \/ result'[c] = "exhausted" )
             => \E n \in 1..Len(log[c]) :
                   /\ log[c][n].ev = "backoff"
                   /\ \A m \in (n + 1)..Len(log[c]) : log[c][m].ev \notin { "invoke", "backoff" } ]_vars

\* the exhaustion error raised after the backoff that followed the last attempt
\* on the last backend
C26_Witness ==
    /\ EndedExec(Caller, "exhausted")
    /\ Count(log[Caller], "backoff") = ChainLength * RETRY_CONFIG.maxRetries
    /\ log[Caller][Len(log[Caller])] = Event("backoff", RETRY_CONFIG.maxRetries - 1)

\* ------------------------------------------------------------------ C27
\* C27: executeWithRetry called while no model is constructed raises the
\* not-initialized error at once: the operation is not invoked, the rate
\* limiter is not passed (the time of the last call stays), and the cursor
\* stays.
C27_UninitializedRejected ==
    [][ \A c \in Procs :
          ( /\ pc[c] = "idle" /\ ~AwaitsExtract(c)
            /\ primaryModel = Null
            /\ kind'[c] = "exec"
            /\ << kind[c], result[c], log[c], lastDone >> # << kind'[c], result'[c], log'[c], lastDone' >> )
          => ( /\ pc'[c] = "idle"
               /\ result'[c] = "uninitialized"
               /\ log'[c] = << >>
               /\ totalAttempts'[c] = 0
               /\ limiterVars' = limiterVars
               /\ chainVars' = chainVars ) ]_vars

\* the call was rejected before anything was initialized, some time after
\* the start
C27_Witness ==
    /\ EndedExec(Caller, "uninitialized")
    /\ lastDone.kind = "exec"
    /\ primaryModel = Null
    /\ currentModelIndex = 0
    /\ log[Caller] = << >>

\* ------------------------------------------------------------------ C28
\* initializeGemini of c has returned false after every backend failed its probe
ValidationFailed(c) ==
    /\ kind[c] = "init" /\ pc[c] = "idle" /\ result[c] = "false"
    /\ Count(log[c], "invoke") = ChainLength

\* C28: when initializeGemini returns false because no backend passed its
\* probe, the backends stay constructed: isInitialized() is true, the cursor
\* is 0, and a call of executeWithRetry made then is not rejected but starts
\* on the primary backend.
C28_FailedValidationLeavesService ==
    /\ [](\A c \in Procs :
            ValidationFailed(c)
            => ( /\ isInitialized
                 /\ fallbackModels = Tail(MODEL_CHAIN)
                 /\ currentModelIndex = 0 ))
    /\ [][ \A c \in Procs :
             (ValidationFailed(c) /\ kind'[c] = "exec")
             => ( /\ pc'[c] \in { "rateLimitSleep", "acquired" }
                  /\ result'[c] = "none"
                  /\ currentModel'[c] = MODEL_CHAIN[1]
                  /\ currentModelIndex' = 0 ) ]_vars

\* after a validation that failed on every backend, the operation of a call
\* is in flight on the primary backend
C28_Witness ==
    /\ lastDone.kind = "init" /\ lastDone.result = "false"
    /\ InExec(Caller)
    /\ pc[Caller] = "inflight"
    /\ InvokeArgs(log[Caller]) = << 0 >>
    /\ currentModel[Caller] = MODEL_CHAIN[1]

\* ------------------------------------------------------------------ C29
\* the text of the thrown value holds one of the keywords
HoldsKeyword(error) == \E k \in RetryableKeywords : includes(toLowerCase(error.message), k)

\* C29: when the operation throws a value that is not an Error object, the
\* failure is fatal also when the text of the value holds a retryable keyword:
\* the call ends with it in that step, without a retry, a backoff or an
\* advance of the cursor.
C29_NonErrorNeverRetried ==
    [][ \A c \in Procs :
          ( /\ pc[c] = "inflight" /\ kind[c] = "exec"
            /\ pc'[c] # "inflight"
            /\ opRaised'[c].type = "string"
            /\ HoldsKeyword(opRaised'[c]) )
          => ( /\ ~isRetryableError(opRaised'[c])
               /\ pc'[c] = "idle"
               /\ result'[c] = "fatal"
               /\ Count(log'[c], "backoff") = Count(log[c], "backoff")
               /\ Count(log'[c], "advance") = Count(log[c], "advance")
               /\ Count(log'[c], "invoke") = Count(log[c], "invoke")
               /\ totalAttempts'[c] = totalAttempts[c]
               /\ currentModelIndex' = currentModelIndex ) ]_vars

\* a thrown string with the text of a 429 ended the call on its first attempt
C29_Witness ==
    /\ EndedExec(Caller, "fatal")
    /\ opRaised[Caller].type = "string"
    /\ HoldsKeyword(opRaised[Caller])
    /\ totalAttempts[Caller] = 1
    /\ Count(log[Caller], "backoff") = 0

\* ------------------------------------------------------------------ C30
\* the backends the call invoked
BackendsInvoked(lg) == { InvokeArgs(lg)[n] : n \in 1..Len(InvokeArgs(lg)) }

\* C30: the number of models the exhaustion error states is the number of
\* backends the call that raised it invoked.
C30_ModelsStatedAreModelsInvoked ==
    \A c \in Procs :
        EndedExec(c, "exhausted")
        => exhaustInfo[c].models = Cardinality(BackendsInvoked(log[c]))

====
